---- MODULE Spec2Model ----
(***************************************************************************)
(* The warehouse load of the e-commerce data pipeline                      *)
(* (scripts/transformation/load_warehouse.py): the date dimension, the     *)
(* payment-method dimension, the customer and product dimensions, the      *)
(* fact table and the three aggregate tables, as the tables of one         *)
(* PostgreSQL database, together with the production tables the load reads *)
(* and the position of the script's main block; the upstream load of the   *)
(* production tables (scripts/transformation/staging_to_production.py);    *)
(* and the ingestion of the raw files into the staging tables              *)
(* (scripts/ingestion/ingest_to_staging.py).                               *)
(*                                                                         *)
(* Money is an integer number of cents.  A date is the number of days      *)
(* since 2023-01-01 (the base date of the generated data); DateKey turns   *)
(* it into the integer YYYYMMDD the script stores.                         *)
(***************************************************************************)
EXTENDS Integers, Sequences, FiniteSets, Bags, TLC

VARIABLES
    pc,                      \* position of load_warehouse's main block
    runs,                    \* runs of the main block started so far
    loads,                   \* upstream production loads committed so far
    today,                   \* CURRENT_DATE of the database
    records_processed,       \* summary["records_processed"] of the last upstream load:
                             \* <<>> before any load, else <<the four results>>
    ingest_pc,               \* position of ingest_to_staging's main block
    writes,                  \* rewrites of the files under data/raw so far
    raw,                     \* the files under data/raw: <<>> for a missing file,
                             \* else <<the rows of the file>>
    staging,                 \* the staging tables as committed: sets of rows
    session,                 \* the staging tables as the open transaction sees them
    summary,                 \* the summary of the last ingestion run
    df_customers,            \* df of the last load_dim_customers: <<>> before any run,
                             \* else <<the rows read>>
    df_products,             \* df of the last load_dim_products, likewise
    production_customers,    \* production.customers: set of rows
    production_products,     \* production.products: set of rows
    production_transactions, \* production.transactions: set of rows
    production_items,        \* production.transaction_items: set of rows
    dim_date,                \* warehouse.dim_date: rows in insertion order
    dim_payment_method,      \* warehouse.dim_payment_method: index = payment_method_key
    dim_customers,           \* warehouse.dim_customers: index = customer_key
    dim_products,            \* warehouse.dim_products: index = product_key
    fact_sales,              \* warehouse.fact_sales: bag of rows
    agg_daily_sales,         \* warehouse.agg_daily_sales: bag of rows
    agg_product_performance, \* warehouse.agg_product_performance: bag of rows
    agg_customer_metrics     \* warehouse.agg_customer_metrics: bag of rows

production == <<production_customers, production_products,
                production_transactions, production_items>>
dims == <<dim_date, dim_payment_method, dim_customers, dim_products>>
aggs == <<agg_daily_sales, agg_product_performance, agg_customer_metrics>>
frames == <<df_customers, df_products>>
ingest == <<ingest_pc, writes, raw, staging, session, summary>>
vars == <<pc, runs, loads, today, records_processed, ingest, frames, production, dims,
          fact_sales, aggs>>

\* ------------------------------------------------------------------ bounds

\* Runs of the main block in one behaviour.
MaxRuns == 2
\* Rewrites of the raw files in one behaviour.
MaxWrites == 2

\* Upstream production loads in one behaviour.
MaxLoads == 2

\* SQL NULL.
NULL == "NULL"

\* ---------------------------------------------------------------- calendar

\* Days of the months of 2023, the year the model's dates lie in.
MonthLengths == <<31, 28, 31, 30, 31, 30, 31, 31, 30, 31, 30, 31>>

RECURSIVE MonthFrom(_, _)
\* The month (1..12) and the day of the month (1..) of the d-th day (0-based)
\* counted from the first day of month m.
MonthFrom(d, m) ==
    IF d < MonthLengths[m] THEN <<m, d + 1>> ELSE MonthFrom(d - MonthLengths[m], m + 1)

Year(d) == 2023
Month(d) == MonthFrom(d, 1)[1]
Day(d) == MonthFrom(d, 1)[2]

\* int(d.strftime("%Y%m%d"))
DateKey(d) == Year(d) * 10000 + Month(d) * 100 + Day(d)

\* d.weekday(): Monday = 0; 2023-01-01 is a Sunday.
Weekday(d) == (d + 6) % 7

\* d.isocalendar()[1]: 2023-01-01 lies in week 52 of 2022, week 1 starts on 2023-01-02.
WeekOfYear(d) == IF d = 0 THEN 52 ELSE ((d - 1) \div 7) + 1

MonthNames == <<"January", "February", "March", "April", "May", "June", "July",
                "August", "September", "October", "November", "December">>
DayNames == <<"Monday", "Tuesday", "Wednesday", "Thursday", "Friday", "Saturday", "Sunday">>

\* The dates the model draws from: 2023-01-29 .. 2023-02-02, across a month end, a
\* weekend and a week boundary.
Days == 28 .. 32

\* The row build_dim_date computes for date d.
DateRow(d) ==
    [date_key |-> DateKey(d), full_date |-> d, year |-> Year(d),
     quarter |-> ((Month(d) - 1) \div 3) + 1, month |-> Month(d), day |-> Day(d),
     month_name |-> MonthNames[Month(d)], day_name |-> DayNames[Weekday(d) + 1],
     week_of_year |-> WeekOfYear(d), is_weekend |-> (Weekday(d) >= 5)]

\* InsertDateRow without its ON CONFLICT clause.
InsertDateRow_NoConflictClause(table, row) == Append(table, row)

\* INSERT INTO warehouse.dim_date ... ON CONFLICT (date_key) DO NOTHING
InsertDateRow(table, row) ==
    IF \E i \in 1 .. Len(table) : table[i].date_key = row.date_key
    THEN table
    ELSE Append(table, row)

RECURSIVE DateLoop(_, _, _)
\* The while loop of build_dim_date: d runs from start_date while d <= end_date.
DateLoop(table, d, end_date) ==
    IF d <= end_date
    THEN DateLoop(InsertDateRow(table, DateRow(d)), d + 1, end_date)
    ELSE table

\* build_dim_date(conn, start_date, end_date), committed.
build_dim_date(start_date, end_date) ==
    dim_date' = DateLoop(dim_date, start_date, end_date)

\* Standalone call of build_dim_date over any range of the model's dates.
CallBuildDimDate ==
    /\ \E start_date \in Days, end_date \in Days : build_dim_date(start_date, end_date)
    /\ UNCHANGED <<pc, runs, loads, today, records_processed, ingest, frames, production,
                   dim_payment_method,
                   dim_customers, dim_products, fact_sales, aggs>>

\* ------------------------------------------------- upstream production load

\* The cleansed staging data sets the upstream load may bring.  A customer row keeps
\* its key and its city (the other columns are copied the same way), a product row
\* its key, price and cost, a transaction row its key, customer, date and payment
\* method, an item row its key, transaction, product, quantity, unit price and
\* discount percentage.
Customer(id, city) == [customer_id |-> id, city |-> city]
Product(id, price, cost) == [product_id |-> id, price |-> price, cost |-> cost]
Transaction(id, customer, day, method) ==
    [transaction_id |-> id, customer_id |-> customer, transaction_date |-> day,
     payment_method |-> method]

\* round(quantity * unit_price * (1 - discount_percentage / 100), 2), in cents, the
\* half cent rounded to the even cent.
LineTotal(quantity, unit_price, discount_percentage) ==
    LET n == quantity * unit_price * (100 - discount_percentage)
        q == n \div 100
        r == n % 100
    IN  IF r > 50 \/ (r = 50 /\ q % 2 = 1) THEN q + 1 ELSE q

\* cleanse_transaction_items: the item row with line_total recalculated.
Item(id, txn, product, quantity, unit_price, discount_percentage) ==
    [item_id |-> id, transaction_id |-> txn, product_id |-> product,
     quantity |-> quantity, unit_price |-> unit_price,
     discount_percentage |-> discount_percentage,
     line_total |-> LineTotal(quantity, unit_price, discount_percentage)]

BaseCustomers == {Customer(1, "Pune"), Customer(2, "Delhi")}
BaseProducts == {Product(1, 4000, 2500), Product(2, 15000, 6000)}
BaseTransactions == {Transaction(1, 1, 30, "UPI"), Transaction(2, 2, 30, "Credit Card")}
BaseItems == {Item(1, 1, 2, 3, 10000, 10), Item(2, 1, 1, 1, 4000, 0),
              Item(3, 2, 2, 2, 10000, 5)}

Batches ==
    { \* the base data set
      [customers |-> BaseCustomers, products |-> BaseProducts,
       transactions |-> BaseTransactions, items |-> BaseItems],
      \* customer 1 moved, product 1 repriced, one more transaction
      [customers |-> {Customer(1, "Mumbai"), Customer(2, "Delhi")},
       products |-> {Product(1, 25000, 2500), Product(2, 15000, 6000)},
       transactions |-> BaseTransactions \cup {Transaction(3, 2, 31, "Cash on Delivery")},
       items |-> BaseItems \cup {Item(4, 3, 1, 2, 25000, 25)}],
      \* a transaction paid by a method the payment dimension does not list
      [customers |-> BaseCustomers, products |-> BaseProducts,
       transactions |-> BaseTransactions \cup {Transaction(4, 1, 32, "Wallet")},
       items |-> BaseItems \cup {Item(5, 4, 1, 1, 4000, 0)}],
      \* a new customer and a new product, with a transaction of theirs
      [customers |-> BaseCustomers \cup {Customer(3, "Pune")},
       products |-> BaseProducts \cup {Product(3, 1999, 1000)},
       transactions |-> BaseTransactions \cup {Transaction(5, 3, 28, "UPI")},
       items |-> BaseItems \cup {Item(6, 5, 3, 2, 1999, 33)}],
      \* the customers replaced by another one, nothing else new
      [customers |-> {Customer(4, "Delhi")}, products |-> BaseProducts,
       transactions |-> {}, items |-> {}],
      \* empty staging tables
      [customers |-> {}, products |-> {}, transactions |-> {}, items |-> {}],
      \* the base data set with transaction 1 and item 1 rewritten at the source
      [customers |-> BaseCustomers, products |-> BaseProducts,
       transactions |-> {Transaction(1, 1, 31, "Debit Card"),
                         Transaction(2, 2, 30, "Credit Card")},
       items |-> {Item(1, 1, 2, 1, 10000, 0), Item(2, 1, 1, 1, 4000, 0),
                  Item(3, 2, 2, 2, 10000, 5)}] }

\* load_to_production with the TRUNCATE ahead of the test for an empty frame.
load_to_production_TruncatesFirst(table, df, strategy) ==
    LET truncated == IF strategy = "truncate" THEN {} ELSE table
    IN  IF Cardinality(df) = 0
        THEN [table |-> truncated, result |-> [inserted |-> 0, status |-> "skipped"]]
        ELSE [table |-> truncated \cup df,
              result |-> [inserted |-> Cardinality(df), status |-> "success"]]

\* load_to_production(df, table_name, connection, strategy): the table afterwards and
\* the dict returned.  An empty frame returns before any statement is executed.
load_to_production(table, df, strategy) ==
    LET record_count == Cardinality(df)
        truncated == IF strategy = "truncate" THEN {} ELSE table
    IN  IF record_count = 0
        THEN [table |-> table, result |-> [inserted |-> 0, status |-> "skipped"]]
        ELSE [table |-> truncated \cup df,
              result |-> [inserted |-> record_count, status |-> "success"]]

\* The table after load_to_production(df, table, conn, "truncate").
LoadTruncate(table, df) == load_to_production(table, df, "truncate").table

\* The table after load_to_production(df, table, conn, "incremental").
LoadIncremental(table, df) == load_to_production(table, df, "incremental").table

\* The rows of the frame df, none left out.
NewRows_NoFilter(df, table, key) == df

\* df[~df[key].isin(existing)], existing being the keys selected from the table.
NewRows(df, table, key) ==
    LET existing == {r[key] : r \in table}
    IN  {r \in df : r[key] \notin existing}

\* run_staging_to_production_etl on the staging content b: the dimensions replaced,
\* the transactions and items not yet in production appended.  The four loads, each
\* with its own commit, are taken as one step, and TRUNCATE ... CASCADE as emptying
\* the named table only (the foreign keys of the production schema are not part of
\* the source).
UpstreamLoad ==
    /\ loads < MaxLoads
    /\ loads' = loads + 1
    /\ \E b \in Batches :
         LET new_transactions ==
                 NewRows(b.transactions, production_transactions, "transaction_id")
             new_items == NewRows(b.items, production_items, "item_id")
         IN  /\ production_customers' = LoadTruncate(production_customers, b.customers)
             /\ production_products' = LoadTruncate(production_products, b.products)
             /\ production_transactions' =
                    LoadIncremental(production_transactions, new_transactions)
             /\ production_items' = LoadIncremental(production_items, new_items)
             /\ records_processed' =
                    << [customers |->
                          load_to_production(production_customers, b.customers,
                                             "truncate").result,
                        products |->
                          load_to_production(production_products, b.products,
                                             "truncate").result,
                        transactions |->
                          load_to_production(production_transactions, new_transactions,
                                             "incremental").result,
                        transaction_items |->
                          load_to_production(production_items, new_items,
                                             "incremental").result] >>
    /\ UNCHANGED <<pc, runs, today, ingest, frames, dims, fact_sales, aggs>>

\* --------------------------------------------------- reference dimension

\* The methods dictionary of load_payment_methods, in insertion order.
methods == << <<"Credit Card", "Online">>, <<"Debit Card", "Online">>,
              <<"UPI", "Online">>, <<"Net Banking", "Online">>,
              <<"Cash on Delivery", "Offline">> >>

\* The payment_methods list generate_transactions draws a transaction's method from.
payment_methods == <<"Credit Card", "Debit Card", "UPI", "Cash on Delivery", "Net Banking">>

\* The INSERT of load_payment_methods without its ON CONFLICT clause.
InsertPaymentMethod_NoConflictClause(table, m, t) ==
    Append(table, [payment_method_name |-> m, payment_type |-> t])

\* INSERT INTO warehouse.dim_payment_method ... ON CONFLICT (payment_method_name) DO NOTHING
InsertPaymentMethod(table, m, t) ==
    IF \E i \in 1 .. Len(table) : table[i].payment_method_name = m
    THEN table
    ELSE Append(table, [payment_method_name |-> m, payment_type |-> t])

RECURSIVE PaymentLoop(_, _)
\* The for loop of load_payment_methods from the i-th entry on.
PaymentLoop(table, i) ==
    IF i > Len(methods)
    THEN table
    ELSE PaymentLoop(InsertPaymentMethod(table, methods[i][1], methods[i][2]), i + 1)

\* load_payment_methods(conn), committed.
load_payment_methods == dim_payment_method' = PaymentLoop(dim_payment_method, 1)

\* ----------------------------------------------------- SCD dimensions

RECURSIVE SortedBy(_, _)
\* The rows of a production table in the order of their key: the order the upstream
\* load wrote them in, which is the order SELECT * returns them in.
SortedBy(rows, key) ==
    IF rows = {}
    THEN <<>>
    ELSE LET first == CHOOSE r \in rows : \A o \in rows : r[key] <= o[key]
         IN  <<first>> \o SortedBy(rows \ {first}, key)

\* The row load_dim_customers inserts for the production row r.
CustomerVersion(r) ==
    [customer_id |-> r.customer_id, city |-> r.city, customer_segment |-> "Regular",
     effective_date |-> today, end_date |-> NULL, is_current |-> TRUE]

RECURSIVE InsertCustomers(_, _)
\* The for loop of load_dim_customers over the frame df.
InsertCustomers(table, df) ==
    IF df = <<>>
    THEN table
    ELSE InsertCustomers(Append(table, CustomerVersion(Head(df))), Tail(df))

\* load_dim_customers(conn), committed.
load_dim_customers ==
    /\ df_customers' = <<SortedBy(production_customers, "customer_id")>>
    /\ dim_customers' = InsertCustomers(dim_customers, df_customers'[1])

\* The price tier of load_dim_products (prices in cents).
PriceRange(price) ==
    IF price < 50 * 100 THEN "Budget"
    ELSE IF price < 200 * 100 THEN "Mid-range"
    ELSE "Premium"

\* The row load_dim_products inserts for the production row r.
ProductVersion(r) ==
    [product_id |-> r.product_id, price_range |-> PriceRange(r.price),
     effective_date |-> today, end_date |-> NULL, is_current |-> TRUE]

RECURSIVE InsertProducts(_, _)
\* The for loop of load_dim_products over the frame df.
InsertProducts(table, df) ==
    IF df = <<>>
    THEN table
    ELSE InsertProducts(Append(table, ProductVersion(Head(df))), Tail(df))

\* load_dim_products(conn), committed.
load_dim_products ==
    /\ df_products' = <<SortedBy(production_products, "product_id")>>
    /\ dim_products' = InsertProducts(dim_products, df_products'[1])

\* ------------------------------------------------------------ fact loader

\* The rows of the join of load_fact_sales: one per item whose transaction, product
\* and customer are in production (item_id only tells equal rows apart).
Joined ==
    { [item_id |-> ti.item_id, transaction_id |-> t.transaction_id,
       transaction_date |-> t.transaction_date, quantity |-> ti.quantity,
       unit_price |-> ti.unit_price, discount_percentage |-> ti.discount_percentage,
       line_total |-> ti.line_total, cost |-> p.cost, customer_id |-> c.customer_id,
       product_id |-> p.product_id, payment_method |-> t.payment_method] :
      <<ti, t, p, c>> \in
        { x \in production_items \X production_transactions \X production_products
                \X production_customers :
            /\ x[1].transaction_id = x[2].transaction_id
            /\ x[1].product_id = x[3].product_id
            /\ x[2].customer_id = x[4].customer_id } }

\* SELECT customer_key FROM warehouse.dim_customers WHERE customer_id=%s AND is_current=TRUE
CustomerKeys(customer_id) ==
    {k \in 1 .. Len(dim_customers) :
        dim_customers[k].customer_id = customer_id /\ dim_customers[k].is_current}

\* SELECT product_key FROM warehouse.dim_products WHERE product_id=%s AND is_current=TRUE
ProductKeys(product_id) ==
    {k \in 1 .. Len(dim_products) :
        dim_products[k].product_id = product_id /\ dim_products[k].is_current}

\* SELECT payment_method_key FROM warehouse.dim_payment_method WHERE payment_method_name=%s
PaymentKeys(name) ==
    {k \in 1 .. Len(dim_payment_method) : dim_payment_method[k].payment_method_name = name}

\* cur.fetchone(): the first row of the result.  The queries have no ORDER BY; the
\* rows are taken in the order they were inserted, the order of a scan of a table
\* that is only ever appended to.
FetchOne(keys) == CHOOSE k \in keys : \A o \in keys : k <= o

\* cur.fetchone()[0] raises when the result is empty.
Resolvable(r) ==
    /\ CustomerKeys(r.customer_id) # {}
    /\ ProductKeys(r.product_id) # {}
    /\ PaymentKeys(r.payment_method) # {}

\* discount_amt = (r.unit_price * r.quantity) * (r.discount_percentage / 100), kept in
\* hundredths of a cent so that the division by 100 is exact.
DiscountAmt(r) == (r.unit_price * r.quantity) * r.discount_percentage

\* Profit with the cost of one unit only.
Profit_UnitCost(r) == r.line_total - r.cost

\* profit = r.line_total - (r.cost * r.quantity), in cents.
Profit(r) == r.line_total - (r.cost * r.quantity)

\* The row load_fact_sales inserts for the joined row r.
FactRow(r) ==
    [date_key |-> DateKey(r.transaction_date),
     customer_key |-> FetchOne(CustomerKeys(r.customer_id)),
     product_key |-> FetchOne(ProductKeys(r.product_id)),
     payment_method_key |-> FetchOne(PaymentKeys(r.payment_method)),
     transaction_id |-> r.transaction_id, quantity |-> r.quantity,
     unit_price |-> r.unit_price, discount_amount |-> DiscountAmt(r),
     line_total |-> r.line_total, profit |-> Profit(r)]

RECURSIVE InsertFacts(_, _)
\* The for loop of load_fact_sales over the joined rows.
InsertFacts(table, rows) ==
    IF rows = {}
    THEN table
    ELSE LET r == CHOOSE x \in rows : TRUE
         IN  InsertFacts(table (+) SetToBag({FactRow(r)}), rows \ {r})

\* Whether load_fact_sales raises: some joined row has a lookup with no row.
FactLoadFails == \E r \in Joined : ~Resolvable(r)

\* load_fact_sales committing the rows inserted before the lookup that raises.
load_fact_sales_CommitsPartial ==
    fact_sales' = InsertFacts(fact_sales, {r \in Joined : Resolvable(r)})

\* load_fact_sales(conn): the inserts are committed after the loop; when a lookup
\* raises the script ends without a commit and the inserts made so far are lost.
load_fact_sales ==
    fact_sales' = IF FactLoadFails THEN fact_sales ELSE InsertFacts(fact_sales, Joined)

\* ------------------------------------------------------- aggregate builder

RECURSIVE SumFn(_, _)
\* The sum of f over the set S.
SumFn(f, S) ==
    IF S = {} THEN 0
    ELSE LET x == CHOOSE y \in S : TRUE IN f[x] + SumFn(f, S \ {x})

\* The distinct fact rows of the group field = k.
Group(field, k) == {r \in BagToSet(fact_sales) : r[field] = k}

\* SUM(column) over a group of fact rows.
SumOf(rows, column) == SumFn([r \in rows |-> r[column] * CopiesIn(r, fact_sales)], rows)

\* COUNT(*) over a group of fact rows.
CountOf(rows) == SumFn([r \in rows |-> CopiesIn(r, fact_sales)], rows)

\* CountDistinct counting every row: COUNT(column).
CountDistinct_CountAll(rows, column) == CountOf(rows)

\* COUNT(DISTINCT column) over a group of fact rows.
CountDistinct(rows, column) == Cardinality({r[column] : r \in rows})

\* AVG(column) over a group of fact rows: the exact quotient sum / count.
AvgOf(rows, column) == [sum |-> SumOf(rows, column), count |-> CountOf(rows)]

\* 'YYYYMMDD'::DATE: the date of a date key.
DateOfKey(k) ==
    LET m == (k \div 100) % 100
    IN  SumFn([j \in 1 .. (m - 1) |-> MonthLengths[j]], 1 .. (m - 1)) + (k % 100) - 1

\* MAX(date_key::TEXT)::DATE over a group: the eight digit texts order as the numbers.
MaxDate(rows) ==
    DateOfKey(CHOOSE k \in {r.date_key : r \in rows} : \A r \in rows : r.date_key <= k)

\* SELECT ... FROM warehouse.fact_sales GROUP BY date_key
DailySales ==
    { [date_key |-> k,
       total_transactions |-> CountDistinct(Group("date_key", k), "transaction_id"),
       total_revenue |-> SumOf(Group("date_key", k), "line_total"),
       total_profit |-> SumOf(Group("date_key", k), "profit"),
       unique_customers |-> CountDistinct(Group("date_key", k), "customer_key")] :
      k \in {r.date_key : r \in BagToSet(fact_sales)} }

\* SELECT ... FROM warehouse.fact_sales GROUP BY product_key
ProductPerformance ==
    { [product_key |-> k,
       total_quantity_sold |-> SumOf(Group("product_key", k), "quantity"),
       total_revenue |-> SumOf(Group("product_key", k), "line_total"),
       total_profit |-> SumOf(Group("product_key", k), "profit"),
       avg_discount_amount |-> AvgOf(Group("product_key", k), "discount_amount")] :
      k \in {r.product_key : r \in BagToSet(fact_sales)} }

\* SELECT ... FROM warehouse.fact_sales GROUP BY customer_key
CustomerMetrics ==
    { [customer_key |-> k,
       total_transactions |-> CountDistinct(Group("customer_key", k), "transaction_id"),
       total_spent |-> SumOf(Group("customer_key", k), "line_total"),
       avg_order_value |-> AvgOf(Group("customer_key", k), "line_total"),
       last_purchase_date |-> MaxDate(Group("customer_key", k))] :
      k \in {r.customer_key : r \in BagToSet(fact_sales)} }

\* Truncate that removes nothing.
Truncate_Nothing(table) == table

\* TRUNCATE table
Truncate(table) == EmptyBag

\* TRUNCATE table, then INSERT INTO table SELECT ...: the table after the two.
Rebuild(table, selected) == Truncate(table) (+) SetToBag(selected)

\* build_aggregates(conn), committed: each table truncated, then filled by its query.
build_aggregates ==
    /\ agg_daily_sales' = Rebuild(agg_daily_sales, DailySales)
    /\ agg_product_performance' = Rebuild(agg_product_performance, ProductPerformance)
    /\ agg_customer_metrics' = Rebuild(agg_customer_metrics, CustomerMetrics)

\* ------------------------------------------------------------- main block

\* The range main passes to build_dim_date, cut to the model's dates (the script
\* passes 2023-01-01 .. 2025-12-31).
MainStart == CHOOSE d \in Days : \A o \in Days : d <= o
MainEnd == CHOOSE d \in Days : \A o \in Days : o <= d

\* A run of the script starts, the same day as the run before or the day after:
\* conn = get_connection().
Start ==
    /\ pc \in {"idle", "done", "failed"}
    /\ runs < MaxRuns
    /\ runs' = runs + 1
    /\ today' \in {today, today + 1}
    /\ pc' = "build_dim_date"
    /\ UNCHANGED <<loads, records_processed, ingest, frames, production, dims, fact_sales,
                   aggs>>

MainBuildDimDate ==
    /\ pc = "build_dim_date"
    /\ build_dim_date(MainStart, MainEnd)
    /\ pc' = "load_payment_methods"
    /\ UNCHANGED <<runs, loads, today, records_processed, ingest,
                   frames, production, dim_payment_method,
                   dim_customers, dim_products, fact_sales, aggs>>

MainLoadPaymentMethods ==
    /\ pc = "load_payment_methods"
    /\ load_payment_methods
    /\ pc' = "load_dim_customers"
    /\ UNCHANGED <<runs, loads, today, records_processed, ingest,
                   frames, production, dim_date, dim_customers,
                   dim_products, fact_sales, aggs>>

MainLoadDimCustomers ==
    /\ pc = "load_dim_customers"
    /\ load_dim_customers
    /\ pc' = "load_dim_products"
    /\ UNCHANGED <<runs, loads, today, records_processed, ingest,
                   df_products, production, dim_date,
                   dim_payment_method, dim_products, fact_sales, aggs>>

MainLoadDimProducts ==
    /\ pc = "load_dim_products"
    /\ load_dim_products
    /\ pc' = "load_fact_sales"
    /\ UNCHANGED <<runs, loads, today, records_processed, ingest,
                   df_customers, production, dim_date,
                   dim_payment_method, dim_customers, fact_sales, aggs>>

\* MainLoadFactSales going on to the aggregates after a failed lookup.
MainLoadFactSales_GoesOn ==
    /\ pc = "load_fact_sales"
    /\ load_fact_sales
    /\ pc' = "build_aggregates"
    /\ UNCHANGED <<runs, loads, today, records_processed, ingest,
                   frames, production, dims, aggs>>

\* The exception of a failed lookup is not caught: the script ends there.
MainLoadFactSales ==
    /\ pc = "load_fact_sales"
    /\ load_fact_sales
    /\ pc' = IF FactLoadFails THEN "failed" ELSE "build_aggregates"
    /\ UNCHANGED <<runs, loads, today, records_processed, ingest,
                   frames, production, dims, aggs>>

MainBuildAggregates ==
    /\ pc = "build_aggregates"
    /\ build_aggregates
    /\ pc' = "done"
    /\ UNCHANGED <<runs, loads, today, records_processed, ingest,
                   frames, production, dims, fact_sales>>

\* The dimension table as the transaction of load_dim_customers sees it after each of
\* its inserts.
PartialCustomers ==
    LET df == SortedBy(production_customers, "customer_id")
    IN  {InsertCustomers(dim_customers, SubSeq(df, 1, n)) : n \in 0 .. Len(df)}

\* The dimension table as the transaction of load_dim_products sees it after each of
\* its inserts.
PartialProducts ==
    LET df == SortedBy(production_products, "product_id")
    IN  {InsertProducts(dim_products, SubSeq(df, 1, n)) : n \in 0 .. Len(df)}

\* The fact table as the transaction of load_fact_sales sees it after the inserts of
\* some of the joined rows.
PartialFacts ==
    {InsertFacts(fact_sales, rows) : rows \in SUBSET {r \in Joined : Resolvable(r)}}

\* The aggregate tables as the transaction of build_aggregates sees them after each
\* of its six statements.
PartialAggregates ==
    LET daily == Rebuild(agg_daily_sales, DailySales)
        product == Rebuild(agg_product_performance, ProductPerformance)
        customer == Rebuild(agg_customer_metrics, CustomerMetrics)
    IN  { aggs,
          <<Truncate(agg_daily_sales), agg_product_performance, agg_customer_metrics>>,
          <<daily, agg_product_performance, agg_customer_metrics>>,
          <<daily, Truncate(agg_product_performance), agg_customer_metrics>>,
          <<daily, product, agg_customer_metrics>>,
          <<daily, product, Truncate(agg_customer_metrics)>>,
          <<daily, product, customer>> }

\* A table after a transaction that ended without a commit, its writes kept.
AfterAbort_KeepsWrites(before, written) == written

\* A table after a transaction that ended without a commit: the connection has
\* autocommit off, conn.commit() was not reached, and the script ends with the
\* exception, so the writes of the transaction (TRUNCATE among them) are dropped.
AfterAbort(before, written) == before

\* A statement of a stage raises (the database connection is lost, an insert is
\* refused): the exception is not caught and the script ends there.
MainStageAborts ==
    /\ pc' = "failed"
    /\ \/ /\ pc = "load_dim_customers"
          /\ df_customers' = <<SortedBy(production_customers, "customer_id")>>
          /\ \E written \in PartialCustomers :
               dim_customers' = AfterAbort(dim_customers, written)
          /\ UNCHANGED <<df_products, dim_date, dim_payment_method, dim_products,
                         fact_sales, aggs>>
       \/ /\ pc = "load_dim_products"
          /\ df_products' = <<SortedBy(production_products, "product_id")>>
          /\ \E written \in PartialProducts :
               dim_products' = AfterAbort(dim_products, written)
          /\ UNCHANGED <<df_customers, dim_date, dim_payment_method, dim_customers,
                         fact_sales, aggs>>
       \/ /\ pc = "load_fact_sales"
          /\ \E written \in PartialFacts : fact_sales' = AfterAbort(fact_sales, written)
          /\ UNCHANGED <<frames, dims, aggs>>
       \/ /\ pc = "build_aggregates"
          /\ \E written \in PartialAggregates :
               /\ agg_daily_sales' = AfterAbort(aggs, written)[1]
               /\ agg_product_performance' = AfterAbort(aggs, written)[2]
               /\ agg_customer_metrics' = AfterAbort(aggs, written)[3]
          /\ UNCHANGED <<frames, dims, fact_sales>>
    /\ UNCHANGED <<runs, loads, today, records_processed, ingest, production>>

Main ==
    \/ Start
    \/ MainBuildDimDate
    \/ MainLoadPaymentMethods
    \/ MainLoadDimCustomers
    \/ MainLoadDimProducts
    \/ MainLoadFactSales
    \/ MainBuildAggregates

\* ------------------------------------------------------ staging ingestion

\* The tables list of ingest_to_staging's main block: the files in the order they
\* are loaded, each with its staging table.
tables == << <<"data/raw/customers.csv", "staging.customers">>,
             <<"data/raw/products.csv", "staging.products">>,
             <<"data/raw/transactions.csv", "staging.transactions">>,
             <<"data/raw/transaction_items.csv", "staging.transaction_items">> >>

CsvPaths == {tables[i][1] : i \in 1 .. Len(tables)}
StagingTables == {tables[i][2] : i \in 1 .. Len(tables)}

\* The csv_path validate_staging_load pairs with a staging table.
CsvOf(table) == tables[CHOOSE i \in 1 .. Len(tables) : tables[i][2] = table][1]

\* What a file under data/raw may be: missing, or a CSV file of zero, one or two rows.
RawContents == {<<>>, <<{}>>, <<{1}>>, <<{1, 2}>>}

\* The state before the first ingestion run: the generated files, empty staging
\* tables, no summary written.
IngestInit ==
    /\ ingest_pc = "idle"
    /\ writes = 0
    /\ raw = [f \in CsvPaths |-> <<{1}>>]
    /\ staging = [t \in StagingTables |-> {}]
    /\ session = [t \in StagingTables |-> {}]
    /\ summary = <<>>

\* The staging tables after the run's transaction is ended with its writes kept.
rollback_KeepsWrites(committed, written) == written

\* connection.rollback(): the staging tables are the committed ones.
rollback(committed, written) == committed

\* connection.commit(): the writes of the transaction become the staging tables.
commit(committed, written) == written

\* The except block of the main block: rollback, and the error put in the summary.
IngestFails(error) ==
    /\ staging' = rollback(staging, session)
    /\ session' = staging'
    /\ summary' = <<[summary[1] EXCEPT !.error = <<error>>]>>
    /\ ingest_pc' = "idle"

\* The main block up to the loop: a transaction is opened and the four staging
\* tables are truncated in it.
IngestTruncate ==
    /\ ingest_pc = "idle"
    /\ session' = [t \in StagingTables |-> {}]
    /\ summary' = <<[tables_loaded |-> <<>>, validation |-> <<>>, error |-> <<>>]>>
    /\ ingest_pc' = "load"
    /\ UNCHANGED <<writes, raw, staging>>

\* load_csv_to_staging(csv_file, table_name, connection) for the next entry of
\* tables: a missing file raises, else the rows of the file are inserted.
IngestLoad ==
    /\ ingest_pc = "load"
    /\ LET i == Len(summary[1].tables_loaded) + 1
           csv_file == tables[i][1]
           table_name == tables[i][2]
       IN  IF raw[csv_file] = <<>>
           THEN IngestFails("CSV file not found")
           ELSE LET df == raw[csv_file][1]
                    result == [table |-> table_name, rows_loaded |-> Cardinality(df),
                               status |-> "success"]
                IN  /\ session' = [session EXCEPT ![table_name] = @ \cup df]
                    /\ summary' = <<[summary[1] EXCEPT
                                        !.tables_loaded = Append(@, result)]>>
                    /\ ingest_pc' = IF i = Len(tables) THEN "validate" ELSE "load"
                    /\ staging' = staging
    /\ UNCHANGED <<writes, raw>>

\* validate_staging_load(connection): the count of each table in the transaction
\* against the count of its file, read again.
Validation ==
    [t \in StagingTables |->
        [csv_rows |-> Cardinality(raw[CsvOf(t)][1]),
         db_rows |-> Cardinality(session[t]),
         match |-> Cardinality(raw[CsvOf(t)][1]) = Cardinality(session[t])]]

\* The main block from the validation on: commit when every count matches, else
\* the exception and the rollback.  A file missing by now makes read_csv raise.
IngestValidate ==
    /\ ingest_pc = "validate"
    /\ IF \E f \in CsvPaths : raw[f] = <<>>
       THEN IngestFails("CSV file not found")
       ELSE IF \A t \in StagingTables : Validation[t].match
            THEN /\ staging' = commit(staging, session)
                 /\ session' = staging'
                 /\ summary' = <<[summary[1] EXCEPT !.validation = <<Validation>>]>>
                 /\ ingest_pc' = "idle"
            ELSE /\ staging' = rollback(staging, session)
                 /\ session' = staging'
                 /\ summary' = <<[summary[1] EXCEPT
                                     !.validation = <<Validation>>,
                                     !.error = <<"Row count validation failed">>]>>
                 /\ ingest_pc' = "idle"
    /\ UNCHANGED <<writes, raw>>

\* A file under data/raw is written again, or removed, by another process.
WriteRaw ==
    /\ writes < MaxWrites
    /\ writes' = writes + 1
    /\ \E f \in CsvPaths, contents \in RawContents :
         /\ contents # raw[f]
         /\ raw' = [raw EXCEPT ![f] = contents]
    /\ UNCHANGED <<ingest_pc, staging, session, summary>>

\* ingest_to_staging's main block, step by step.
Ingest ==
    /\ \/ IngestTruncate
       \/ IngestLoad
       \/ IngestValidate
       \/ WriteRaw
    /\ UNCHANGED <<pc, runs, loads, today, records_processed, frames, production, dims,
                   fact_sales, aggs>>

\* ------------------------------------------------------------ specifications

\* The empty database, before any load.
Init ==
    /\ pc = "idle"
    /\ runs = 0
    /\ loads = 0
    /\ today = MainEnd
    /\ records_processed = <<>>
    /\ IngestInit
    /\ df_customers = <<>>
    /\ df_products = <<>>
    /\ production_customers = {}
    /\ production_products = {}
    /\ production_transactions = {}
    /\ production_items = {}
    /\ dim_date = <<>>
    /\ dim_payment_method = <<>>
    /\ dim_customers = <<>>
    /\ dim_products = <<>>
    /\ fact_sales = EmptyBag
    /\ agg_daily_sales = EmptyBag
    /\ agg_product_performance = EmptyBag
    /\ agg_customer_metrics = EmptyBag

Next == Main \/ UpstreamLoad

\* Runs of the warehouse load, with upstream loads of production at any moment.
Spec == Init /\ [][Next]_vars

\* Spec with a statement of any of the four loading stages allowed to raise.
SpecFaults == Init /\ [][Next \/ MainStageAborts]_vars

\* Calls of build_dim_date over any ranges, on the empty database.
SpecDate == Init /\ [][CallBuildDimDate]_vars

\* The values one transaction item is drawn from, the worked example among them.
Quantities == {1, 2, 3}
UnitPrices == {1999, 4000, 10000}
Percentages == {0, 5, 10, 33}
Costs == {2500, 6000}

\* The database after an upstream load of one customer, one product, and one
\* transaction with one item, before any run of the warehouse load.
InitItems ==
    /\ pc = "idle"
    /\ runs = 0
    /\ loads = 1
    /\ today = MainEnd
    /\ records_processed = <<>>
    /\ IngestInit
    /\ df_customers = <<>>
    /\ df_products = <<>>
    /\ production_customers = {Customer(1, "Pune")}
    /\ \E cost \in Costs : production_products = {Product(1, 15000, cost)}
    /\ production_transactions = {Transaction(1, 1, 30, "UPI")}
    /\ \E quantity \in Quantities, unit_price \in UnitPrices, pct \in Percentages :
         production_items = {Item(1, 1, 1, quantity, unit_price, pct)}
    /\ dim_date = <<>>
    /\ dim_payment_method = <<>>
    /\ dim_customers = <<>>
    /\ dim_products = <<>>
    /\ fact_sales = EmptyBag
    /\ agg_daily_sales = EmptyBag
    /\ agg_product_performance = EmptyBag
    /\ agg_customer_metrics = EmptyBag

\* Runs of the warehouse load over one transaction item of any values.
SpecItems == InitItems /\ [][Main]_vars

\* Runs of the staging ingestion, the raw files rewritten at any moment.
SpecIngest == Init /\ [][Ingest]_vars

\* ------------------------------------------------------------------ claims

\* C1: every natural key present in dim_customers / dim_products has exactly one
\* row with is_current = TRUE, and that row's end_date is NULL.
C1_OneCurrentVersionPerKey ==
    /\ \A k \in 1 .. Len(dim_customers) :
         LET current == CustomerKeys(dim_customers[k].customer_id)
         IN  /\ Cardinality(current) = 1
             /\ \A j \in current : dim_customers[j].end_date = NULL
    /\ \A k \in 1 .. Len(dim_products) :
         LET current == ProductKeys(dim_products[k].product_id)
         IN  /\ Cardinality(current) = 1
             /\ \A j \in current : dim_products[j].end_date = NULL

\* C2: a run of load_dim_customers (load_dim_products) that reads the same source
\* rows as the run before it leaves the dimension table as that run left it.
C2_UnchangedSourceAddsNothing ==
    [][ /\ (/\ pc = "load_dim_customers"
            /\ df_customers = <<SortedBy(production_customers, "customer_id")>>)
           => dim_customers' = dim_customers
        /\ (/\ pc = "load_dim_products"
            /\ df_products = <<SortedBy(production_products, "product_id")>>)
           => dim_products' = dim_products ]_vars

\* C3: when load_dim_customers runs and a customer's city in production differs from
\* the city of its current row, the run closes that row (is_current = FALSE, end_date
\* set) and inserts exactly one new current row with end_date NULL for the customer.
C3_ChangedCityClosesOldVersion ==
    [][ (pc = "load_dim_customers" /\ pc' = "load_dim_products") =>
        \A r \in production_customers :
          \A k \in CustomerKeys(r.customer_id) :
            dim_customers[k].city # r.city =>
              /\ dim_customers'[k].is_current = FALSE
              /\ dim_customers'[k].end_date # NULL
              /\ Cardinality({j \in (Len(dim_customers) + 1) .. Len(dim_customers') :
                                /\ dim_customers'[j].customer_id = r.customer_id
                                /\ dim_customers'[j].is_current
                                /\ dim_customers'[j].end_date = NULL}) = 1 ]_vars

\* A record of the production join for which some dimension lookup finds no row.
SomeLookupFindsNothing ==
    \E ti \in production_items, t \in production_transactions,
       p \in production_products, c \in production_customers :
      /\ ti.transaction_id = t.transaction_id
      /\ ti.product_id = p.product_id
      /\ t.customer_id = c.customer_id
      /\ \/ ~\E k \in 1 .. Len(dim_customers) :
               dim_customers[k].customer_id = c.customer_id /\ dim_customers[k].is_current
         \/ ~\E k \in 1 .. Len(dim_products) :
               dim_products[k].product_id = p.product_id /\ dim_products[k].is_current
         \/ ~\E k \in 1 .. Len(dim_payment_method) :
               dim_payment_method[k].payment_method_name = t.payment_method

\* Every foreign key of the fact row f names a row of its dimension, and that row is
\* the one of the customer, payment method and product of f's transaction.
KeysResolved(f) ==
    /\ f.customer_key \in 1 .. Len(dim_customers)
    /\ f.product_key \in 1 .. Len(dim_products)
    /\ f.payment_method_key \in 1 .. Len(dim_payment_method)
    /\ \E t \in production_transactions :
         /\ t.transaction_id = f.transaction_id
         /\ dim_customers[f.customer_key].customer_id = t.customer_id
         /\ dim_customers[f.customer_key].is_current
         /\ dim_payment_method[f.payment_method_key].payment_method_name = t.payment_method
    /\ \E ti \in production_items :
         /\ ti.transaction_id = f.transaction_id
         /\ dim_products[f.product_key].product_id = ti.product_id
         /\ dim_products[f.product_key].is_current

\* C4: when load_fact_sales meets a joined record with no matching dimension row, the
\* run fails and the fact table is as it was before the run; no fact row with a null
\* or wrong foreign key is ever inserted.
C4_FailedLookupFailsTheRun ==
    [][ (pc = "load_fact_sales" /\ pc' # pc) =>
        /\ SomeLookupFindsNothing => (pc' = "failed" /\ fact_sales' = fact_sales)
        /\ \A f \in BagToSet(fact_sales') : KeysResolved(f) ]_vars

\* C4 witness: a run has failed on a customer with no current row while other joined
\* records had all their dimension rows.
C4_Witness ==
    /\ pc = "failed"
    /\ \E r \in Joined : CustomerKeys(r.customer_id) = {}
    /\ \E r \in Joined : Resolvable(r)

\* C5: after a successful run of load_fact_sales the fact table holds exactly one row
\* per (transaction, item) pair of the production join, none left from earlier runs.
C5_FactTableIsTheJoin ==
    [][ (pc = "load_fact_sales" /\ pc' = "build_aggregates") =>
        BagCardinality(fact_sales') = Cardinality(Joined) ]_vars

\* C6: every fact row has discount_amount = unit_price * quantity *
\* (discount_percentage / 100) and profit = line_total - cost * quantity of its item;
\* quantity 3, unit price 100.00, 10 percent, cost 60.00, line total 270.00 give
\* discount 30.00 and profit 90.00 (discount_amount is in hundredths of a cent).
C6_DerivedMeasures ==
    \A f \in BagToSet(fact_sales) :
      \E ti \in production_items, p \in production_products :
        /\ ti.transaction_id = f.transaction_id
        /\ p.product_id = ti.product_id
        /\ f.quantity = ti.quantity
        /\ f.unit_price = ti.unit_price
        /\ f.line_total = ti.line_total
        /\ f.discount_amount = ti.unit_price * ti.quantity * ti.discount_percentage
        /\ f.profit = ti.line_total - p.cost * ti.quantity
        /\ (/\ ti.quantity = 3
            /\ ti.unit_price = 10000
            /\ ti.discount_percentage = 10
            /\ p.cost = 6000)
           => (ti.line_total = 27000 /\ f.discount_amount = 3000 * 100 /\ f.profit = 9000)

\* C6 witness: the fact row of the worked example has been written.
C6_Witness ==
    \E f \in BagToSet(fact_sales) :
      /\ f.quantity = 3
      /\ f.unit_price = 10000
      /\ f.line_total = 27000
      /\ f.discount_amount = 300000
      /\ f.profit = 9000

\* C7: build_dim_date over any range keeps every row of dim_date as it is, leaves at
\* most one row per date_key, the integer YYYYMMDD of the date, and with start > end
\* inserts nothing.
C7_DateDimensionRerun ==
    \A start_date \in Days, end_date \in Days :
      LET after == DateLoop(dim_date, start_date, end_date)
      IN  /\ Len(after) >= Len(dim_date)
          /\ \A i \in 1 .. Len(dim_date) : after[i] = dim_date[i]
          /\ \A i \in 1 .. Len(after), j \in 1 .. Len(after) :
               after[i].date_key = after[j].date_key => i = j
          /\ \A i \in 1 .. Len(after) :
               /\ after[i].date_key =
                    after[i].year * 10000 + after[i].month * 100 + after[i].day
               /\ after[i].full_date = 28 => after[i].date_key = 20230129
               /\ after[i].full_date = 31 => after[i].date_key = 20230201
          /\ start_date > end_date => after = dim_date

\* C7 witness: 2023-01-31 .. 2023-02-01 was built first, then a range around it.
C7_Witness ==
    /\ Len(dim_date) = 5
    /\ dim_date[1].date_key = 20230131
    /\ dim_date[2].date_key = 20230201
    /\ dim_date[3].date_key = 20230129

RECURSIVE BagTotal(_, _)
\* The sum of a column over every row of a bag, copy by copy.
BagTotal(B, column) ==
    IF BagToSet(B) = {}
    THEN 0
    ELSE LET r == CHOOSE x \in BagToSet(B) : TRUE
         IN  r[column] + BagTotal(B (-) SetToBag({r}), column)

\* The fact rows of one date_key, as a bag.
FactsOfDate(k) ==
    [r \in {x \in BagToSet(fact_sales) : x.date_key = k} |-> CopiesIn(r, fact_sales)]

\* C8: after build_aggregates the agg_daily_sales row of a date_key carries the sum
\* of line_total and of profit of the fact rows of that date_key and the numbers of
\* their distinct transaction_id and customer_key values.
C8_DailySalesTotals ==
    pc = "done" =>
      \A k \in {f.date_key : f \in BagToSet(fact_sales)} :
        \E a \in BagToSet(agg_daily_sales) :
          /\ a.date_key = k
          /\ a.total_revenue = BagTotal(FactsOfDate(k), "line_total")
          /\ a.total_profit = BagTotal(FactsOfDate(k), "profit")
          /\ a.total_transactions =
               Cardinality({f.transaction_id : f \in BagToSet(FactsOfDate(k))})
          /\ a.unique_customers =
               Cardinality({f.customer_key : f \in BagToSet(FactsOfDate(k))})

\* C8 witness: the three fact rows of 2023-01-31, of two transactions, are summed.
C8_Witness ==
    /\ pc = "done"
    /\ BagCardinality(FactsOfDate(20230131)) = 3
    /\ \E a \in BagToSet(agg_daily_sales) :
         /\ a.date_key = 20230131
         /\ a.total_revenue = 27000 + 4000 + 19000
         /\ a.total_transactions = 2
         /\ a.unique_customers = 2

\* C9: after build_aggregates each aggregate table has exactly one row per date_key /
\* product_key / customer_key of the fact table and none for another key, and
\* building again on the same fact table gives the same tables.
C9_AggregatesRebuilt ==
    pc = "done" =>
      /\ {a.date_key : a \in BagToSet(agg_daily_sales)}
           = {f.date_key : f \in BagToSet(fact_sales)}
      /\ BagCardinality(agg_daily_sales)
           = Cardinality({f.date_key : f \in BagToSet(fact_sales)})
      /\ {a.product_key : a \in BagToSet(agg_product_performance)}
           = {f.product_key : f \in BagToSet(fact_sales)}
      /\ BagCardinality(agg_product_performance)
           = Cardinality({f.product_key : f \in BagToSet(fact_sales)})
      /\ {a.customer_key : a \in BagToSet(agg_customer_metrics)}
           = {f.customer_key : f \in BagToSet(fact_sales)}
      /\ BagCardinality(agg_customer_metrics)
           = Cardinality({f.customer_key : f \in BagToSet(fact_sales)})
      /\ Rebuild(agg_daily_sales, DailySales) = agg_daily_sales
      /\ Rebuild(agg_product_performance, ProductPerformance) = agg_product_performance
      /\ Rebuild(agg_customer_metrics, CustomerMetrics) = agg_customer_metrics

\* C9 witness: the first run loaded three fact rows and built the tables; the second
\* run, its join empty, built them again on the same fact table.
C9_Witness ==
    /\ pc = "done"
    /\ runs = 2
    /\ Len(dim_customers) = 3
    /\ dim_customers[1].customer_id = 1
    /\ dim_customers[3].customer_id = 4
    /\ BagCardinality(fact_sales) = 3
    /\ BagCardinality(agg_daily_sales) = 1

\* The stages of main in the order of the script.
StageOrder == <<"build_dim_date", "load_payment_methods", "load_dim_customers",
                "load_dim_products", "load_fact_sales", "build_aggregates", "done">>

\* C10: the position of main moves only from a stage to the next one, or from the
\* fact load to failure, after which only a new run follows; a table is written only
\* by the step of its own stage; and the aggregates are reached only when the fact
\* load has written a row for every joined record.
C10_StagesInOrder ==
    [][ /\ pc' # pc =>
           \/ \E i \in 1 .. (Len(StageOrder) - 1) :
                pc = StageOrder[i] /\ pc' = StageOrder[i + 1]
           \/ pc = "load_fact_sales" /\ pc' = "failed"
           \/ pc \in {"idle", "done", "failed"} /\ pc' = "build_dim_date"
        /\ dim_date' # dim_date => (pc = "build_dim_date" /\ pc' = "load_payment_methods")
        /\ dim_payment_method' # dim_payment_method =>
             (pc = "load_payment_methods" /\ pc' = "load_dim_customers")
        /\ dim_customers' # dim_customers =>
             (pc = "load_dim_customers" /\ pc' = "load_dim_products")
        /\ dim_products' # dim_products =>
             (pc = "load_dim_products" /\ pc' = "load_fact_sales")
        /\ fact_sales' # fact_sales =>
             (pc = "load_fact_sales" /\ pc' = "build_aggregates")
        /\ aggs' # aggs => (pc = "build_aggregates" /\ pc' = "done")
        /\ (pc = "load_fact_sales" /\ pc' = "build_aggregates") =>
             BagCardinality(fact_sales') = BagCardinality(fact_sales) + Cardinality(Joined)
      ]_vars

\* C10 witness: the second run failed in the fact load, after the first run had
\* built the aggregates.
C10_Witness ==
    /\ pc = "failed"
    /\ runs = 2
    /\ BagToSet(agg_daily_sales) # {}
    /\ SomeLookupFindsNothing

\* C11: when load_dim_customers, load_dim_products, load_fact_sales or
\* build_aggregates fails part-way, none of its writes is committed: the dimension,
\* fact and aggregate tables are as they were before the stage started.
C11_FailedStageLeavesNoWrites ==
    [][ (/\ pc \in {"load_dim_customers", "load_dim_products", "load_fact_sales",
                    "build_aggregates"}
         /\ pc' = "failed")
        => (/\ dim_customers' = dim_customers
            /\ dim_products' = dim_products
            /\ fact_sales' = fact_sales
            /\ aggs' = aggs) ]_vars

\* C11 witness: build_aggregates failed in the run whose fact load was the first to
\* commit rows: the fact table is filled, the aggregate tables still hold nothing.
C11_Witness ==
    /\ pc = "failed"
    /\ BagToSet(fact_sales) # {}
    /\ BagToSet(agg_daily_sales) = {}
    /\ BagToSet(agg_customer_metrics) = {}

\* C12: a stage whose source has no rows goes on and leaves its target untouched:
\* load_dim_customers / load_dim_products over an empty production table change no
\* dimension row and the run goes on to the next stage; load_to_production with an
\* empty frame returns status 'skipped' and truncates and inserts nothing, under
\* either strategy.
C12_EmptySourceIsNoOp ==
    /\ [](/\ InsertCustomers(dim_customers, SortedBy({}, "customer_id")) = dim_customers
          /\ InsertProducts(dim_products, SortedBy({}, "product_id")) = dim_products
          /\ \A table \in {production_customers, production_products,
                            production_transactions, production_items} :
               \A strategy \in {"truncate", "incremental"} :
                 load_to_production(table, {}, strategy) =
                     [table |-> table, result |-> [inserted |-> 0, status |-> "skipped"]])
    /\ [][ /\ (pc = "load_dim_customers" /\ pc' # pc /\ production_customers = {})
              => (dim_customers' = dim_customers /\ pc' = "load_dim_products")
           /\ (pc = "load_dim_products" /\ pc' # pc /\ production_products = {})
              => (dim_products' = dim_products /\ pc' = "load_fact_sales")
           /\ loads' # loads
              => LET result == records_processed'[1]
                 IN  /\ result.customers.status = "skipped"
                        => production_customers' = production_customers
                     /\ result.products.status = "skipped"
                        => production_products' = production_products
                     /\ result.transactions.status = "skipped"
                        => production_transactions' = production_transactions
                     /\ result.transaction_items.status = "skipped"
                        => production_items' = production_items ]_vars

\* C12 witness: the warehouse load ran over empty production tables and ended with
\* empty dimensions; later an upstream load with empty frames, under the truncate
\* strategy, was skipped and left the loaded production tables as they were.
C12_Witness ==
    /\ pc = "done"
    /\ df_customers = << <<>> >>
    /\ dim_customers = <<>>
    /\ dim_products = <<>>
    /\ records_processed # <<>>
    /\ records_processed[1].customers = [inserted |-> 0, status |-> "skipped"]
    /\ records_processed[1].products = [inserted |-> 0, status |-> "skipped"]
    /\ production_customers # {}
    /\ production_products # {}

\* load_payment_methods has committed at least once.
PaymentMethodsLoaded ==
    \/ runs > 1
    \/ runs = 1 /\ pc \notin {"build_dim_date", "load_payment_methods"}

\* C13: once load_payment_methods has run, each of the five names of
\* generate_transactions has exactly one row in dim_payment_method, so the lookup of
\* the fact loader finds a row for every transaction carrying one of them; running
\* load_payment_methods again adds no row and changes none.
C13_PaymentMethodsCovered ==
    PaymentMethodsLoaded =>
        /\ \A i \in 1 .. Len(payment_methods) :
             Cardinality(PaymentKeys(payment_methods[i])) = 1
        /\ \A t \in production_transactions :
             (\E i \in 1 .. Len(payment_methods) : payment_methods[i] = t.payment_method)
                 => PaymentKeys(t.payment_method) # {}
        /\ PaymentLoop(dim_payment_method, 1) = dim_payment_method

\* C13 witness: load_payment_methods has just run for the second time, over
\* production transactions paid by the listed methods.
C13_Witness ==
    /\ runs = 2
    /\ pc = "load_dim_customers"
    /\ Len(dim_payment_method) = 5
    /\ \E t \in production_transactions : t.payment_method = "Cash on Delivery"
    /\ \E t \in production_transactions : t.payment_method = "UPI"

IngestEnds == ingest_pc # "idle" /\ ingest_pc' = "idle"

\* C15: an ingestion run commits its truncates and loads only when all four files
\* were loaded and the count of every staging table matched its file; a run ended
\* by a load error or a mismatch leaves the four staging tables with the contents
\* they had before the run.
C15_CommitOnlyWhenValidated ==
    [][ /\ staging' # staging => IngestEnds
        /\ IngestEnds =>
             IF summary'[1].error = <<>>
             THEN /\ Len(summary'[1].tables_loaded) = Len(tables)
                  /\ \A i \in 1 .. Len(tables) :
                       /\ summary'[1].tables_loaded[i].table = tables[i][2]
                       /\ summary'[1].tables_loaded[i].status = "success"
                  /\ summary'[1].validation # <<>>
                  /\ \A t \in StagingTables : summary'[1].validation[1][t].match
                  /\ staging' = session
             ELSE staging' = staging ]_vars

\* C15 witness: a run over rewritten files ended with a count mismatch after an
\* earlier run had committed: the staging tables still hold the rows of the earlier
\* run.
C15_Witness ==
    /\ ingest_pc = "idle"
    /\ summary # <<>>
    /\ summary[1].error = <<"Row count validation failed">>
    /\ \A t \in StagingTables : staging[t] = {1}
    /\ raw["data/raw/customers.csv"] = <<{1, 2}>>

====
